---- MODULE Spec2Model ----
(***************************************************************************)
(* Model of the Pokedex service: the PokeAPI adapter (PokeAPIClient), the  *)
(* translation adapter (TranslationClient) and the orchestrator            *)
(* (PokemonService), all sharing one Redis store.  Every await in the code *)
(* is a suspension point, hence one action of the model.                   *)
(*                                                                         *)
(* Strings that the code inspects character by character (identifiers,     *)
(* flavour texts) are sequences of one-character or one-word tokens.       *)
(* PokemonSpeciesData(...) is taken to build the record from the keyword   *)
(* arguments it is given, as the repository's unit tests construct it.     *)
(***************************************************************************)
EXTENDS Integers, Sequences, FiniteSets, TLC

VARIABLES
    store,          \* the Redis store: key -> [val, ttl] for the live keys
    hashOf,         \* this process's str hash, fixed when the process starts
    pc,             \* task -> suspension point
    call,           \* task -> local variables of the running request
    outcome,        \* task -> what the request returned or raised
    obs,            \* task -> history of the running request (upstream answers, request counts)
    lastFetch,      \* identifier (case-folded) -> how the latest finished fetch for it ended
    lastTrans,      \* translation cache key -> how the latest finished transform for it ended
    goodFetch,      \* identifier (case-folded) -> latest fresh successful fetch, with its age
    goodTrans,      \* <<text, style>> -> latest successful transform result, with its age
    nCalls,         \* requests started so far
    nAdv            \* clock advances so far

vars == <<store, hashOf, pc, call, outcome, obs, lastFetch, lastTrans,
          goodFetch, goodTrans, nCalls, nAdv>>

----------------------------------------------------------------------------
(* Bounds of the model *)

NTasks == 2
MaxCalls == 2
MaxAdvances == 1

Tasks == 1..NTasks

(* Program constants *)

POKE_CACHE_TTL == 3600

(* Variant: translations are kept twice as long as species documents. *)
TRANSLATION_CACHE_TTL_Twice == 2 * POKE_CACHE_TTL

TRANSLATION_CACHE_TTL == 604800
HTTP_404 == 404
HTTP_429 == 429
HTTP_503 == 503

----------------------------------------------------------------------------
(* Identifiers and str.lower() *)

LowerChar(c) ==
    CASE c = "M" -> "m"
      [] c = "E" -> "e"
      [] c = "W" -> "w"
      [] c = "D" -> "d"
      [] OTHER -> c

Lower(s) == [i \in DOMAIN s |-> LowerChar(s[i])]

Names == { <<"M", "e", "w">>, <<"M", "E", "W">>, <<"m", "e", "w">>, <<"D", "i", "t">> }

----------------------------------------------------------------------------
(* JSON values.  A value that may be null or absent is wrapped. *)

JNull == [t |-> "null"]
JInvalid == [t |-> "invalid"]          \* a body that is not JSON
JObj(f) == [t |-> "obj", v |-> f]
IsObj(j) == j.t = "obj"

None == [some |-> FALSE]
Some(x) == [some |-> TRUE, v |-> x]

(* json.dumps / json.loads as the adapter uses them: dumps yields a       *)
(* non-empty string holding the document, loads gives the document back.  *)
Dumps(d) == <<"json", d>>

(* Variant: loads loses the habitat member. *)
Loads_NoHabitat(s) ==
    IF IsObj(s[2])
    THEN JObj([k \in DOMAIN s[2].v \ {"habitat"} |-> s[2].v[k]])
    ELSE s[2]

Loads(s) == s[2]

(* Python truthiness of a value read from Redis: None (no key) and the    *)
(* empty string are falsy.                                                *)
EmptyStr == << >>

(* Variant: nothing read from Redis counts as a hit. *)
Truthy_Never(v) == FALSE

Truthy(v) == v.some /\ v.v # EmptyStr

----------------------------------------------------------------------------
(* Flavour texts *)

Entry(lang, text) == [flavor_text |-> text, language |-> [name |-> lang]]

FrText == <<"Ceci", " ", "est">>
EnText == <<"Created", " ", "by", " ", "science">>
EnTextRaw == <<"Lives", "\n", "in", "\f", "caves">>
EsText == <<"Esto", " ", "es">>

PLACEHOLDER == <<"Description unavailable.">>

(* Variant: only the newline is replaced. *)
CleanChar_NewlineOnly(c) == IF c = "\n" THEN " " ELSE c

CleanChar(c) == IF c = "\n" \/ c = "\f" THEN " " ELSE c
Clean(text) == [i \in DOMAIN text |-> CleanChar(text[i])]

(* next((clean(e.flavor_text) for e in entries if e.language.name == 'en'), default) *)
RECURSIVE FirstEnglish(_)
FirstEnglish(entries) ==
    IF entries = << >> THEN PLACEHOLDER
    ELSE IF Head(entries).language.name = "en"
         THEN Clean(Head(entries).flavor_text)
         ELSE FirstEnglish(Tail(entries))

----------------------------------------------------------------------------
(* get_pokemon_species: building the EntityRecord from the raw document *)

(* The exception the extraction raises on the document, "" when none.   *)
(* Evaluation order: flavor_text_entries, name, habitat, is_legendary.  *)
SpeciesParseError(data) ==
    IF ~IsObj(data) THEN "AttributeError"
    ELSE IF "name" \notin DOMAIN data.v THEN "KeyError"
    ELSE IF "habitat" \in DOMAIN data.v /\ ~IsObj(data.v.habitat) THEN "AttributeError"
    ELSE IF "is_legendary" \notin DOMAIN data.v THEN "KeyError"
    ELSE ""

(* data.get('habitat', {}).get('name') *)
HabitatOf(d) ==
    IF "habitat" \notin DOMAIN d THEN None
    ELSE IF "name" \in DOMAIN d.habitat.v THEN Some(d.habitat.v.name)
    ELSE None

EntriesOf(d) ==
    IF "flavor_text_entries" \in DOMAIN d THEN d.flavor_text_entries ELSE << >>

ExtractSpecies(data) ==
    [ name |-> data.v.name,
      description |-> FirstEnglish(EntriesOf(data.v)),
      habitat |-> HabitatOf(data.v),
      is_legendary |-> data.v.is_legendary ]

(* Variants: the response keeps the record's own text; the response drops *)
(* the habitat.                                                           *)
PublicRecord_KeepsText(rec, description) ==
    [ name |-> rec.name,
      description |-> rec.description,
      habitat |-> rec.habitat,
      is_legendary |-> rec.is_legendary ]

PublicRecord_NoHabitat(rec, description) ==
    [ name |-> rec.name,
      description |-> description,
      habitat |-> None,
      is_legendary |-> rec.is_legendary ]

(* PokemonResponse(name=..., description=..., habitat=..., is_legendary=...) *)
PublicRecord(rec, description) ==
    [ name |-> rec.name,
      description |-> description,
      habitat |-> rec.habitat,
      is_legendary |-> rec.is_legendary ]

(* Variant: only the legendary flag selects yoda. *)
SelectStyle_LegendaryOnly(rec) == IF rec.is_legendary THEN "yoda" ELSE "shakespeare"

(* The translation rule of get_translated_info *)
SelectStyle(rec) ==
    IF rec.is_legendary \/ (rec.habitat.some /\ rec.habitat.v = "cave")
    THEN "yoda"
    ELSE "shakespeare"

Styles == {"yoda", "shakespeare"}

----------------------------------------------------------------------------
(* Cache keys and the Redis commands the adapters use *)

(* Variant: the identifier is used as given. *)
NormalizeName_AsGiven(pokemon_name) == pokemon_name

NormalizeName(pokemon_name) == Lower(pokemon_name)

PokeKey(normalized_name) == <<"pokemon", ":", "species", ":">> \o normalized_name

PokeUrl(normalized_name) == <<"/pokemon-species/">> \o normalized_name

(* Variant: the key leaves the text out. *)
TransKey_NoText(h, text, translation_style) == <<"translation", ":", translation_style>>

TransKey(h, text, translation_style) ==
    <<"translation", ":", translation_style, ":", h[text]>>

TransUrl(translation_style) == <<"/", translation_style>>

(* Variant: the lookup never finds the key. *)
RedisGet_Miss(st, key) == None

RedisGet(st, key) == IF key \in DOMAIN st THEN Some(st[key].val) ELSE None

(* Variant: the value is stored without a time to live. *)
RedisSetex_NoExpiry(st, key, ttl, val) ==
    [k \in DOMAIN st \cup {key} |->
        IF k = key THEN [val |-> val, ttl |-> 1000000000] ELSE st[k]]

RedisSetex(st, key, ttl, val) ==
    [k \in DOMAIN st \cup {key} |-> IF k = key THEN [val |-> val, ttl |-> ttl] ELSE st[k]]

(* Redis drops a key once its time to live has elapsed. *)
RedisElapse(st, d) ==
    [k \in {x \in DOMAIN st : st[x].ttl > d} |-> [val |-> st[k].val, ttl |-> st[k].ttl - d]]

(* redis.keys with a pattern prefix-then-star: the keys that start with *)
(* the prefix                                                          *)
RedisKeys(st, prefix) ==
    {k \in DOMAIN st : Len(k) >= Len(prefix) /\ SubSeq(k, 1, Len(prefix)) = prefix}

(* redis.delete of the keys *)
RedisDelete(st, keys) == [k \in DOMAIN st \ keys |-> st[k]]

(* Variant: the adapter flushes the whole store. *)
PokeClear_FlushAll(st) == RedisDelete(st, DOMAIN st)

(* PokeAPIClient.clear_cache *)
PokeClear(st) == RedisDelete(st, RedisKeys(st, <<"pokemon", ":", "species", ":">>))

(* TranslationClient.clear_cache *)
TransClear(st) == RedisDelete(st, RedisKeys(st, <<"translation", ":">>))

IsPokeKey(key) == Len(key) >= 4 /\ SubSeq(key, 1, 4) = <<"pokemon", ":", "species", ":">>
IsTransKey(key) == Len(key) >= 2 /\ SubSeq(key, 1, 2) = <<"translation", ":">>

----------------------------------------------------------------------------
(* What the two upstream services may answer *)

IsSuccess(code) == code >= 200 /\ code < 300

StatusResponse(code, body) == [kind |-> "status", code |-> code, body |-> body, exc |-> ""]
TransportFailure(exc) == [kind |-> "transport", code |-> 0, body |-> JNull, exc |-> exc]
NoResponse == [kind |-> "none", code |-> 0, body |-> JNull, exc |-> ""]

TransportErrors == {"ReadTimeout", "ConnectError"}
PokeFailStatuses == {404, 500}
TransFailStatuses == {429, 500}

(* Documents PokeAPI may send for the species looked up under `n`: the  *)
(* legendary one, and the ordinary one.                                 *)
SpeciesBodies(n) ==
    IF n = <<"m", "e", "w">>
    THEN { JObj([name |-> n, is_legendary |-> TRUE, habitat |-> JObj([name |-> "rare"]),
                 flavor_text_entries |->
                    <<Entry("fr", FrText), Entry("en", EnText), Entry("es", EsText)>>]),
           JObj([name |-> n, is_legendary |-> TRUE, habitat |-> JNull,
                 flavor_text_entries |-> <<Entry("en", EnText)>>]),
           JObj([is_legendary |-> TRUE, habitat |-> JObj([name |-> "rare"]),
                 flavor_text_entries |-> <<Entry("en", EnText)>>]),
           JInvalid }
    ELSE { JObj([name |-> n, is_legendary |-> FALSE, habitat |-> JObj([name |-> "cave"]),
                 flavor_text_entries |-> <<Entry("en", EnTextRaw)>>]),
           JObj([name |-> n, is_legendary |-> FALSE,
                 flavor_text_entries |-> <<Entry("fr", FrText)>>]),
           JObj([name |-> n, habitat |-> JObj([name |-> "rare"]),
                 flavor_text_entries |-> <<Entry("en", EnText)>>]),
           JInvalid }

(* Every shape of species document: legendary or not; habitat missing,   *)
(* null, a cave or another place; each list of text entries, or none.    *)
EntryLists ==
    { << >>,
      <<Entry("fr", FrText)>>,
      <<Entry("en", EnText)>>,
      <<Entry("fr", FrText), Entry("en", EnText), Entry("es", EsText)>>,
      <<Entry("en", EnTextRaw)>>,
      <<Entry("fr", FrText), Entry("en", EnTextRaw), Entry("en", EnText)>>,
      <<Entry("en", EnText), Entry("en", EnTextRaw)>>,
      <<Entry("es", EsText), Entry("fr", FrText)>> }

HabitatFields ==
    { << >>, [habitat |-> JNull], [habitat |-> JObj([name |-> "cave"])],
      [habitat |-> JObj([name |-> "rare"])] }

EntryFields == { << >> } \cup { [flavor_text_entries |-> es] : es \in EntryLists }

(* PokeAPI looks a species up by name or by number; the document carries *)
(* the species' name either way.                                         *)
UpstreamName(n) == IF n = <<"1", "5", "1">> THEN <<"m", "e", "w">> ELSE n

Documents(n) ==
    { JObj([name |-> UpstreamName(n), is_legendary |-> l] @@ h @@ e) :
        l \in BOOLEAN, h \in HabitatFields, e \in EntryFields }

PokeResponses(n) ==
    {StatusResponse(200, b) : b \in SpeciesBodies(n)}
        \cup {StatusResponse(c, JNull) : c \in PokeFailStatuses}
        \cup {TransportFailure(e) : e \in TransportErrors}

(* The descriptions the extraction can produce from these documents. *)
Descriptions == {EnText, Clean(EnTextRaw), PLACEHOLDER}

(* The translation API's rendering of a text in a style. *)
Rendered(text, translation_style) == <<translation_style, ":">> \o text

TranslationBodies(text, translation_style) ==
    { JObj([contents |-> JObj([translated |-> Rendered(text, translation_style)])]),
      JObj([contents |-> JObj([translated |-> EmptyStr])]),
      JObj([contents |-> JObj([text |-> text])]),
      JObj([success |-> JObj([total |-> 1])]),
      JInvalid }

TransResponses(text, translation_style) ==
    {StatusResponse(200, b) : b \in TranslationBodies(text, translation_style)}
        \cup {StatusResponse(c, JNull) : c \in TransFailStatuses}
        \cup {TransportFailure(e) : e \in TransportErrors}

(* hash(text): fixed when the process starts; distinct texts usually get  *)
(* distinct hashes, but nothing makes the hash injective.                 *)
DistinctHash ==
    [d \in Descriptions |->
        CASE d = EnText -> "h1" [] d = PLACEHOLDER -> "h3" [] OTHER -> "h2"]

CollidingHash ==
    [d \in Descriptions |-> CASE d = PLACEHOLDER -> "h3" [] OTHER -> "h1"]

HashFns == {DistinctHash, CollidingHash}

(* Each Python process seeds its str hash when it starts: another process *)
(* gives the same text another hash.                                      *)
ReseededHash ==
    [d \in Descriptions |->
        CASE d = EnText -> "h4" [] d = PLACEHOLDER -> "h6" [] OTHER -> "h5"]

ProcessHashes == {DistinctHash, ReseededHash}

----------------------------------------------------------------------------
(* What a request returns or raises *)

NoOutcome == [kind |-> "none", status |-> 0, detail |-> << >>, value |-> None]
Returned(value) == [kind |-> "ok", status |-> 200, detail |-> << >>, value |-> Some(value)]
(* an exception that is no HTTPException *)
Raised(exc) == [kind |-> "error", status |-> 0, detail |-> <<exc>>, value |-> None]
(* HTTPException(status_code=404, detail=...) *)
NotFound(detail) ==
    [kind |-> "notfound", status |-> HTTP_404, detail |-> detail, value |-> None]
(* APIClientError of pokeapi_client: HTTPException(status_code, "External API Error: " + detail) *)
PokeClientError(status_code, detail) ==
    [kind |-> IF status_code = HTTP_503 THEN "unavailable" ELSE "error",
     status |-> status_code, detail |-> <<"External API Error: ">> \o detail, value |-> None]
(* APIClientError of translation_client: always status 503 *)
TransClientError(status_code, detail) ==
    [kind |-> "unavailable", status |-> HTTP_503,
     detail |-> <<"External API Error: ">> \o detail, value |-> None]

(* Variant: the 404 branch is missing. *)
PokeFailure_No404(resp, pokemon_name) ==
    IF resp.kind = "status"
    THEN PokeClientError(503, <<"PokeAPI", " failed with status ", ToString(resp.code)>>)
    ELSE PokeClientError(503, <<"PokeAPI", " network error: ", resp.exc>>)

(* Variant: the message does not say which service failed. *)
PokeFailure_Anonymous(resp, pokemon_name) ==
    IF resp.kind = "status"
    THEN IF resp.code = HTTP_404
         THEN NotFound(<<"Pokemon '">> \o pokemon_name \o <<"' not found.">>)
         ELSE PokeClientError(503, <<"Upstream", " failed with status ", ToString(resp.code)>>)
    ELSE PokeClientError(503, <<"Upstream", " network error: ", resp.exc>>)

(* The except clauses of _fetch_species_data *)
PokeFailure(resp, pokemon_name) ==
    IF resp.kind = "status"
    THEN IF resp.code = HTTP_404
         THEN NotFound(<<"Pokemon '">> \o pokemon_name \o <<"' not found.">>)
         ELSE PokeClientError(503, <<"PokeAPI", " failed with status ", ToString(resp.code)>>)
    ELSE PokeClientError(503, <<"PokeAPI", " network error: ", resp.exc>>)

RATE_LIMIT_MARKER == "Rate limit exceeded."

(* Variant: a missing field reads as the empty string. *)
TranslatedOf_Default(body) ==
    IF IsObj(body) /\ "contents" \in DOMAIN body.v /\ IsObj(body.v.contents)
       /\ "translated" \in DOMAIN body.v.contents.v
    THEN Some(body.v.contents.v.translated)
    ELSE Some(EmptyStr)

(* data["contents"]["translated"] *)
TranslatedOf(body) ==
    IF IsObj(body) /\ "contents" \in DOMAIN body.v /\ IsObj(body.v.contents)
       /\ "translated" \in DOMAIN body.v.contents.v
    THEN Some(body.v.contents.v.translated)
    ELSE None

(* Variant: the rate-limit text is never appended. *)
TransFailure_NoMarker(resp) ==
    IF resp.kind = "status" /\ ~IsSuccess(resp.code)
    THEN TransClientError(503,
            <<"Translation API", " failed with status ", ToString(resp.code), ". ">>)
    ELSE IF resp.kind = "transport"
    THEN TransClientError(503, <<"Translation API", " network error: ", resp.exc>>)
    ELSE TransClientError(503, <<"Translation API", " returned an unexpected response format.">>)

(* The except clauses of _translate_network_call *)
TransFailure(resp) ==
    IF resp.kind = "status" /\ ~IsSuccess(resp.code)
    THEN TransClientError(503,
            <<"Translation API", " failed with status ", ToString(resp.code), ". ">>
                \o (IF resp.code = HTTP_429 THEN <<RATE_LIMIT_MARKER>> ELSE << >>))
    ELSE IF resp.kind = "transport"
    THEN TransClientError(503, <<"Translation API", " network error: ", resp.exc>>)
    ELSE TransClientError(503, <<"Translation API", " returned an unexpected response format.">>)

----------------------------------------------------------------------------
(* History kept for the properties; the program reads none of it. *)

(* Case-insensitive identity of identifiers, independent of NormalizeName. *)
CasePairs == { <<"M", "m">>, <<"E", "e">>, <<"W", "w">>, <<"D", "d">> }
SameLetter(a, b) == a = b \/ <<a, b>> \in CasePairs \/ <<b, a>> \in CasePairs
SameName(a, b) == Len(a) = Len(b) /\ \A i \in DOMAIN a : SameLetter(a[i], b[i])
Species == { <<"m", "e", "w">>, <<"d", "i", "t">> }
Fold(n) ==
    IF \E k \in Species : SameName(k, n)
    THEN CHOOSE k \in Species : SameName(k, n)
    ELSE n

NoObs ==
    [resp |-> NoResponse, tresp |-> NoResponse, preqs |-> 0, treqs |-> 0,
     url |-> << >>, had |-> FALSE, expect |-> None, texpect |-> None,
     prev |-> "none", tprev |-> "none",
     treq |-> [url |-> << >>, text |-> EmptyStr], thad |-> None]

Lookup(f, k, default) == IF k \in DOMAIN f THEN f[k] ELSE default
Put(f, k, v) == [x \in DOMAIN f \cup {k} |-> IF x = k THEN v ELSE f[x]]
Aged(f, d) == [k \in {x \in DOMAIN f : f[x].ttl > d} |-> [f[k] EXCEPT !.ttl = @ - d]]

----------------------------------------------------------------------------
(* Initial state: empty store, no request running *)

NoCall ==
    [op |-> "", name |-> << >>, data |-> JNull, rec |-> None,
     text |-> EmptyStr, style |-> "", result |-> EmptyStr]

Boot(h) ==
    /\ store = << >>
    /\ hashOf = h
    /\ pc = [t \in Tasks |-> "idle"]
    /\ call = [t \in Tasks |-> NoCall]
    /\ outcome = [t \in Tasks |-> NoOutcome]
    /\ obs = [t \in Tasks |-> NoObs]
    /\ lastFetch = << >>
    /\ lastTrans = << >>
    /\ goodFetch = << >>
    /\ goodTrans = << >>
    /\ nCalls = 0
    /\ nAdv = 0

Init == Boot(DistinctHash)

(* The process may start with any of the hash functions. *)
InitAnyHash == \E h \in HashFns : Boot(h)

Ops == {"basic", "translated"}

(* A request arrives: get_basic_info(name) or get_translated_info(name). *)
Start(t, op, name) ==
    /\ pc[t] = "idle"
    /\ nCalls < MaxCalls
    /\ nCalls' = nCalls + 1
    /\ pc' = [pc EXCEPT ![t] = "poke_get"]
    /\ call' = [call EXCEPT ![t] = [NoCall EXCEPT !.op = op, !.name = name]]
    /\ outcome' = [outcome EXCEPT ![t] = NoOutcome]
    /\ obs' = [obs EXCEPT ![t] = [NoObs EXCEPT !.prev = Lookup(lastFetch, Fold(name), "none")]]
    /\ UNCHANGED <<store, hashOf, lastFetch, lastTrans, goodFetch, goodTrans, nAdv>>

(* The request ends with `out`. *)
Finish(t, out) ==
    /\ pc' = [pc EXCEPT ![t] = "done"]
    /\ outcome' = [outcome EXCEPT ![t] = out]

(* get_pokemon_species after _fetch_species_data returned `data`, and the  *)
(* service's code up to its next await.  `fresh`: data came from PokeAPI.  *)
AfterFetch(t, data, fresh) ==
    LET err == SpeciesParseError(data)
        rec == ExtractSpecies(data)
        who == Fold(call[t].name)
    IN  /\ lastFetch' = Put(lastFetch, who, IF err = "" THEN "ok" ELSE "error")
        /\ goodFetch' =
              IF fresh /\ err = ""
              THEN Put(goodFetch, who,
                       [rec |-> rec, name |-> call[t].name, ttl |-> POKE_CACHE_TTL,
                        pub |-> IF call[t].op = "basic"
                                THEN Some(PublicRecord(rec, rec.description)) ELSE None])
              ELSE IF err = "" /\ call[t].op = "basic" /\ who \in DOMAIN goodFetch
              THEN [goodFetch EXCEPT ![who].pub = Some(PublicRecord(rec, rec.description))]
              ELSE goodFetch
        /\ IF err # ""
           THEN /\ Finish(t, Raised(err))
                /\ call' = [call EXCEPT ![t].data = data]
           ELSE IF call[t].op = "basic"
           THEN /\ Finish(t, Returned(PublicRecord(rec, rec.description)))
                /\ call' = [call EXCEPT ![t].data = data, ![t].rec = Some(rec)]
           ELSE /\ pc' = [pc EXCEPT ![t] = "trans_get"]
                /\ outcome' = outcome
                /\ call' = [call EXCEPT ![t].data = data, ![t].rec = Some(rec),
                                        ![t].text = rec.description,
                                        ![t].style = SelectStyle(rec)]

(* await self.redis.get(cache_key) in _fetch_species_data *)
PokeCacheGet(t) ==
    /\ pc[t] = "poke_get"
    /\ LET normalized_name == NormalizeName(call[t].name)
           cached_data == RedisGet(store, PokeKey(normalized_name))
           seen == IF Fold(call[t].name) \in DOMAIN goodFetch
                   THEN Some(goodFetch[Fold(call[t].name)]) ELSE None
       IN  /\ obs' = [obs EXCEPT ![t].expect = seen,
                              ![t].had = PokeKey(Fold(call[t].name)) \in DOMAIN store]
           /\ IF Truthy(cached_data)
              THEN AfterFetch(t, Loads(cached_data.v), FALSE)
              ELSE /\ pc' = [pc EXCEPT ![t] = "poke_http"]
                   /\ UNCHANGED <<call, outcome, lastFetch, goodFetch>>
    /\ UNCHANGED <<store, hashOf, lastTrans, goodTrans, nCalls, nAdv>>

(* Variants: a failure is remembered in the cache. *)
StoreAfterPokeFailure_CacheErrors(st, key, resp) ==
    IF resp.kind = "status" /\ resp.code = HTTP_404
    THEN st
    ELSE RedisSetex(st, key, POKE_CACHE_TTL, Dumps(JNull))

StoreAfterPokeFailure_Cache404(st, key, resp) ==
    IF resp.kind = "status" /\ resp.code = HTTP_404
    THEN RedisSetex(st, key, POKE_CACHE_TTL, Dumps(JNull))
    ELSE st

(* Variant: a failure removes the entry of the key. *)
StoreAfterPokeFailure_Delete(st, key, resp) ==
    [k \in DOMAIN st \ {key} |-> st[k]]

(* The except clauses of _fetch_species_data write nothing to the cache. *)
StoreAfterPokeFailure(st, key, resp) == st

(* await self.client.get(url), raise_for_status(), response.json(), when *)
(* PokeAPI answers the request with `resp`.                              *)
PokeAnswer(t, resp) ==
    /\ pc[t] = "poke_http"
    /\ LET normalized_name == NormalizeName(call[t].name)
           url == PokeUrl(normalized_name)
       IN   /\ obs' = [obs EXCEPT ![t].resp = resp, ![t].preqs = @ + 1, ![t].url = url]
            /\ IF resp.kind = "status" /\ IsSuccess(resp.code)
               THEN IF resp.body = JInvalid
                    THEN /\ Finish(t, Raised("JSONDecodeError"))
                         /\ lastFetch' = Put(lastFetch, Fold(call[t].name), "error")
                         /\ UNCHANGED <<call, store>>
                    ELSE /\ pc' = [pc EXCEPT ![t] = "poke_set"]
                         /\ call' = [call EXCEPT ![t].data = resp.body]
                         /\ UNCHANGED <<outcome, lastFetch, store>>
               ELSE /\ Finish(t, PokeFailure(resp, call[t].name))
                    /\ lastFetch' = Put(lastFetch, Fold(call[t].name),
                                        PokeFailure(resp, call[t].name).kind)
                    /\ store' = StoreAfterPokeFailure(store, PokeKey(normalized_name), resp)
                    /\ call' = call
    /\ UNCHANGED <<hashOf, lastTrans, goodFetch, goodTrans, nCalls, nAdv>>

PokeHttp(t) ==
    /\ pc[t] = "poke_http"
    /\ \E resp \in PokeResponses(NormalizeName(call[t].name)) : PokeAnswer(t, resp)

(* await self.redis.setex(cache_key, self.CACHE_TTL, json.dumps(data)) *)
PokeCacheSet(t) ==
    /\ pc[t] = "poke_set"
    /\ store' = RedisSetex(store, PokeKey(NormalizeName(call[t].name)),
                           POKE_CACHE_TTL, Dumps(call[t].data))
    /\ AfterFetch(t, call[t].data, TRUE)
    /\ UNCHANGED <<hashOf, obs, lastTrans, goodTrans, nCalls, nAdv>>

(* translate() returned `text`: get_translated_info builds its response. *)
TransReturn(t, translated, fresh) ==
    LET pair == <<call[t].text, call[t].style>>
        key == TransKey(hashOf, call[t].text, call[t].style)
    IN  /\ Finish(t, Returned(PublicRecord(call[t].rec.v, translated)))
        /\ lastTrans' = Put(lastTrans, key, "ok")
        /\ goodTrans' =
              IF fresh
              THEN Put(goodTrans, pair,
                       [val |-> translated, ttl |-> TRANSLATION_CACHE_TTL, key |-> key])
              ELSE IF pair \in DOMAIN goodTrans THEN goodTrans
              ELSE Put(goodTrans, pair,
                       [val |-> translated, ttl |-> store[key].ttl, key |-> key])

(* await self.redis.get(cache_key) in translate *)
TransCacheGet(t) ==
    /\ pc[t] = "trans_get"
    /\ LET pair == <<call[t].text, call[t].style>>
           cached_translation == RedisGet(store, TransKey(hashOf, call[t].text, call[t].style))
       IN  /\ obs' = [obs EXCEPT
                        ![t].texpect = IF pair \in DOMAIN goodTrans
                                       THEN Some(goodTrans[pair].val) ELSE None,
                        ![t].tprev = Lookup(lastTrans,
                                            TransKey(hashOf, call[t].text, call[t].style),
                                            "none"),
                        ![t].thad = cached_translation]
           /\ IF Truthy(cached_translation)
              THEN /\ TransReturn(t, cached_translation.v, FALSE)
                   /\ call' = [call EXCEPT ![t].result = cached_translation.v]
              ELSE /\ pc' = [pc EXCEPT ![t] = "trans_http"]
                   /\ UNCHANGED <<call, outcome, lastTrans, goodTrans>>
    /\ UNCHANGED <<store, hashOf, lastFetch, goodFetch, nCalls, nAdv>>

(* Variant: a failed translation leaves a fallback text in the cache. *)
StoreAfterTransFailure_CacheFallback(st, key, resp) ==
    RedisSetex(st, key, TRANSLATION_CACHE_TTL, <<"untranslated">>)

(* Variant: a failed translation also drops the species entries. *)
StoreAfterTransFailure_DropsEntity(st, key, resp) ==
    [k \in {x \in DOMAIN st : ~IsPokeKey(x)} |-> st[k]]

(* translate() raises out of _translate_network_call before its setex. *)
StoreAfterTransFailure(st, key, resp) == st

(* Variant: the service answers with the untranslated text instead. *)
PropagateTransError_Degrade(rec, text, error) == Returned(PublicRecord(rec, text))

(* get_translated_info has no handler around translate(): the error the *)
(* adapter raises is the request's outcome.                             *)
PropagateTransError(rec, text, error) == error

(* _translate_network_call: post, raise_for_status, json,                *)
(* data["contents"]["translated"], when the API answers with `resp`.     *)
TransAnswer(t, resp) ==
    /\ pc[t] = "trans_http"
    /\ LET key == TransKey(hashOf, call[t].text, call[t].style)
           url == TransUrl(call[t].style)
       IN   /\ obs' = [obs EXCEPT ![t].tresp = resp, ![t].treqs = @ + 1,
                                  ![t].treq = [url |-> url, text |-> call[t].text]]
            /\ IF resp.kind = "status" /\ IsSuccess(resp.code) /\ TranslatedOf(resp.body).some
               THEN /\ pc' = [pc EXCEPT ![t] = "trans_set"]
                    /\ call' = [call EXCEPT ![t].result = TranslatedOf(resp.body).v]
                    /\ UNCHANGED <<outcome, lastTrans, store>>
               ELSE /\ Finish(t, PropagateTransError(call[t].rec.v, call[t].text,
                                                     TransFailure(resp)))
                    /\ lastTrans' = Put(lastTrans, key, TransFailure(resp).kind)
                    /\ store' = StoreAfterTransFailure(store, key, resp)
                    /\ call' = call
    /\ UNCHANGED <<hashOf, lastFetch, goodFetch, goodTrans, nCalls, nAdv>>

TransHttp(t) ==
    /\ pc[t] = "trans_http"
    /\ \E resp \in TransResponses(call[t].text, call[t].style) : TransAnswer(t, resp)

(* await self.redis.setex(cache_key, self.CACHE_TTL, result) *)
TransCacheSet(t) ==
    /\ pc[t] = "trans_set"
    /\ store' = RedisSetex(store, TransKey(hashOf, call[t].text, call[t].style),
                           TRANSLATION_CACHE_TTL, call[t].result)
    /\ TransReturn(t, call[t].result, TRUE)
    /\ UNCHANGED <<hashOf, call, obs, lastFetch, goodFetch, nCalls, nAdv>>

(* The response has been handed to the caller; the task is free again. *)
Return(t) ==
    /\ pc[t] = "done"
    /\ pc' = [pc EXCEPT ![t] = "idle"]
    /\ call' = [call EXCEPT ![t] = NoCall]
    /\ outcome' = [outcome EXCEPT ![t] = NoOutcome]
    /\ obs' = [obs EXCEPT ![t] = NoObs]
    /\ UNCHANGED <<store, hashOf, lastFetch, lastTrans, goodFetch, goodTrans, nCalls, nAdv>>

(* Time passes: Redis expires the keys whose time to live has elapsed. *)
TimeSteps == {1, POKE_CACHE_TTL, TRANSLATION_CACHE_TTL}

Advance(d) ==
    /\ nAdv < MaxAdvances
    /\ nAdv' = nAdv + 1
    /\ store' = RedisElapse(store, d)
    /\ goodFetch' = Aged(goodFetch, d)
    /\ goodTrans' = Aged(goodTrans, d)
    /\ UNCHANGED <<hashOf, pc, call, outcome, obs, lastFetch, lastTrans, nCalls>>

(* Requests of one client, made one after another: a request starts only *)
(* when no other is running.                                             *)
StartAlone(t, op, name) ==
    /\ t = 1
    /\ \A u \in Tasks : pc[u] = "idle"
    /\ Start(t, op, name)

Next ==
    \/ \E t \in Tasks, op \in Ops, name \in Names : StartAlone(t, op, name)
    \/ \E t \in Tasks : PokeCacheGet(t)
    \/ \E t \in Tasks : PokeHttp(t)
    \/ \E t \in Tasks : PokeCacheSet(t)
    \/ \E t \in Tasks : TransCacheGet(t)
    \/ \E t \in Tasks : TransHttp(t)
    \/ \E t \in Tasks : TransCacheSet(t)
    \/ \E t \in Tasks : Return(t)
    \/ \E d \in TimeSteps : Advance(d)

Spec == Init /\ [][Next]_vars

SpecAnyHash == InitAnyHash /\ [][Next]_vars

(* A task cancelled while it awaits setex: the command was sent or not,   *)
(* so Redis has executed the whole write or none of it.                   *)
(* Variant: Redis may be left with a truncated value.                     *)
CancelledWrite_Partial(st, key, ttl, val) ==
    {st, RedisSetex(st, key, ttl, Dumps(JInvalid))}

CancelledWrite(st, key, ttl, val) == {st, RedisSetex(st, key, ttl, val)}

(* The caller abandons the request: the task is cancelled at the await it *)
(* is suspended on.                                                       *)
Cancel(t) ==
    /\ pc[t] \in {"poke_get", "poke_http", "poke_set", "trans_get", "trans_http", "trans_set"}
    /\ store' \in
          IF pc[t] = "poke_set"
          THEN CancelledWrite(store, PokeKey(NormalizeName(call[t].name)),
                              POKE_CACHE_TTL, Dumps(call[t].data))
          ELSE IF pc[t] = "trans_set"
          THEN CancelledWrite(store, TransKey(hashOf, call[t].text, call[t].style),
                              TRANSLATION_CACHE_TTL, call[t].result)
          ELSE {store}
    /\ pc' = [pc EXCEPT ![t] = "idle"]
    /\ call' = [call EXCEPT ![t] = NoCall]
    /\ outcome' = [outcome EXCEPT ![t] = NoOutcome]
    /\ obs' = [obs EXCEPT ![t] = NoObs]
    /\ UNCHANGED <<hashOf, lastFetch, lastTrans, goodFetch, goodTrans, nCalls, nAdv>>

CancelNames == { <<"M", "e", "w">>, <<"D", "i", "t">> }

NextCancel ==
    \/ \E t \in Tasks, op \in Ops, name \in CancelNames : StartAlone(t, op, name)
    \/ \E t \in Tasks : PokeCacheGet(t)
    \/ \E t \in Tasks : PokeHttp(t)
    \/ \E t \in Tasks : PokeCacheSet(t)
    \/ \E t \in Tasks : TransCacheGet(t)
    \/ \E t \in Tasks : TransHttp(t)
    \/ \E t \in Tasks : TransCacheSet(t)
    \/ \E t \in Tasks : Return(t)
    \/ \E d \in TimeSteps : Advance(d)
    \/ \E t \in Tasks : Cancel(t)

SpecCancel == Init /\ [][NextCancel]_vars

(* httpx.AsyncClient(timeout=5.0): a call to an upstream service returns  *)
(* or raises within the timeout.  The Redis clients are built without any *)
(* timeout, so nothing bounds the wait for a cache read or write.         *)
HttpTimeouts ==
    \A t \in Tasks : WF_vars(PokeHttp(t)) /\ WF_vars(TransHttp(t))

SpecTimeouts == Init /\ [][Next]_vars /\ HttpTimeouts

(* Concurrent tasks: one task per inbound request, interleaved at the awaits. *)
NextConc ==
    \/ \E t \in Tasks, op \in Ops, name \in Names : Start(t, op, name)
    \/ \E t \in Tasks : PokeCacheGet(t)
    \/ \E t \in Tasks : PokeHttp(t)
    \/ \E t \in Tasks : PokeCacheSet(t)
    \/ \E t \in Tasks : TransCacheGet(t)
    \/ \E t \in Tasks : TransHttp(t)
    \/ \E t \in Tasks : TransCacheSet(t)
    \/ \E t \in Tasks : Return(t)
    \/ \E d \in TimeSteps : Advance(d)

SpecConc == Init /\ [][NextConc]_vars

(* The following requests are served by another process that shares the  *)
(* Redis store (another worker, or the service after a restart): it has   *)
(* its own clients and its own str hash.                                  *)
SwitchProcess ==
    /\ \A t \in Tasks : pc[t] = "idle"
    /\ \E h \in ProcessHashes : h # hashOf /\ hashOf' = h
    /\ UNCHANGED <<store, pc, call, outcome, obs, lastFetch, lastTrans,
                   goodFetch, goodTrans, nCalls, nAdv>>

NextProcesses ==
    \/ \E t \in Tasks, op \in Ops, name \in Names : StartAlone(t, op, name)
    \/ \E t \in Tasks : PokeCacheGet(t)
    \/ \E t \in Tasks : PokeHttp(t)
    \/ \E t \in Tasks : PokeCacheSet(t)
    \/ \E t \in Tasks : TransCacheGet(t)
    \/ \E t \in Tasks : TransHttp(t)
    \/ \E t \in Tasks : TransCacheSet(t)
    \/ \E t \in Tasks : Return(t)
    \/ \E d \in TimeSteps : Advance(d)
    \/ SwitchProcess

SpecProcesses == Init /\ [][NextProcesses]_vars

(* One request on an empty cache, which PokeAPI answers 200 with any      *)
(* document shape.                                                        *)
StartOnce(t, op, name) ==
    /\ nCalls = 0
    /\ StartAlone(t, op, name)

DocumentNames == Names \cup { <<"1", "5", "1">> }

PokeHttpAny(t) ==
    /\ pc[t] = "poke_http"
    /\ \E d \in Documents(NormalizeName(call[t].name)) :
          PokeAnswer(t, StatusResponse(200, d))

NextDocuments ==
    \/ \E t \in Tasks, op \in Ops, name \in DocumentNames : StartOnce(t, op, name)
    \/ \E t \in Tasks : PokeCacheGet(t)
    \/ \E t \in Tasks : PokeHttpAny(t)
    \/ \E t \in Tasks : PokeCacheSet(t)
    \/ \E t \in Tasks : TransCacheGet(t)
    \/ \E t \in Tasks : TransHttp(t)
    \/ \E t \in Tasks : TransCacheSet(t)
    \/ \E t \in Tasks : Return(t)

SpecDocuments == Init /\ [][NextDocuments]_vars

(* Concurrent requests against upstream services whose content does not   *)
(* change: PokeAPI serves one document per species, the translation API   *)
(* one rendering per text and style.                                      *)
StableDocument(n) ==
    IF n = <<"m", "e", "w">>
    THEN JObj([name |-> n, is_legendary |-> TRUE, habitat |-> JObj([name |-> "rare"]),
               flavor_text_entries |->
                  <<Entry("fr", FrText), Entry("en", EnText), Entry("es", EsText)>>])
    ELSE JObj([name |-> n, is_legendary |-> FALSE, habitat |-> JObj([name |-> "cave"]),
               flavor_text_entries |-> <<Entry("en", EnTextRaw)>>])

StableRendering(text, translation_style) ==
    JObj([contents |-> JObj([translated |-> Rendered(text, translation_style)])])

PokeHttpStable(t) ==
    PokeAnswer(t, StatusResponse(200, StableDocument(NormalizeName(call[t].name))))

TransHttpStable(t) ==
    TransAnswer(t, StatusResponse(200, StableRendering(call[t].text, call[t].style)))

RaceNames == { <<"M", "e", "w">>, <<"m", "e", "w">>, <<"D", "i", "t">> }

NextRace ==
    \/ \E t \in Tasks, op \in Ops, name \in RaceNames : Start(t, op, name)
    \/ \E t \in Tasks : PokeCacheGet(t)
    \/ \E t \in Tasks : PokeHttpStable(t)
    \/ \E t \in Tasks : PokeCacheSet(t)
    \/ \E t \in Tasks : TransCacheGet(t)
    \/ \E t \in Tasks : TransHttpStable(t)
    \/ \E t \in Tasks : TransCacheSet(t)
    \/ \E t \in Tasks : Return(t)

SpecRace == Init /\ [][NextRace]_vars

(* The adapters' clear_cache, called between requests as the test         *)
(* fixtures do.  Both adapters hold the same store.                       *)
PokeClearCache ==
    /\ \A t \in Tasks : pc[t] = "idle"
    /\ store' = PokeClear(store)
    /\ goodFetch' = << >>
    /\ UNCHANGED <<hashOf, pc, call, outcome, obs, lastFetch, lastTrans, goodTrans,
                   nCalls, nAdv>>

TransClearCache ==
    /\ \A t \in Tasks : pc[t] = "idle"
    /\ store' = TransClear(store)
    /\ goodTrans' = << >>
    /\ UNCHANGED <<hashOf, pc, call, outcome, obs, lastFetch, lastTrans, goodFetch,
                   nCalls, nAdv>>

NextClear ==
    \/ \E t \in Tasks, op \in Ops, name \in Names : StartAlone(t, op, name)
    \/ \E t \in Tasks : PokeCacheGet(t)
    \/ \E t \in Tasks : PokeHttp(t)
    \/ \E t \in Tasks : PokeCacheSet(t)
    \/ \E t \in Tasks : TransCacheGet(t)
    \/ \E t \in Tasks : TransHttp(t)
    \/ \E t \in Tasks : TransCacheSet(t)
    \/ \E t \in Tasks : Return(t)
    \/ PokeClearCache
    \/ TransClearCache

SpecClear == Init /\ [][NextClear]_vars

(* Concurrent requests for one species against upstream services with     *)
(* stable content that fail now and then.                                 *)
FlakyNames == { <<"M", "e", "w">>, <<"m", "e", "w">> }

PokeHttpFlaky(t) ==
    /\ pc[t] = "poke_http"
    /\ \E resp \in {StatusResponse(200, StableDocument(NormalizeName(call[t].name))),
                     StatusResponse(500, JNull)} :
          PokeAnswer(t, resp)

TransHttpFlaky(t) ==
    /\ pc[t] = "trans_http"
    /\ \E resp \in {StatusResponse(200, StableRendering(call[t].text, call[t].style)),
                     StatusResponse(429, JNull)} :
          TransAnswer(t, resp)

NextFlaky ==
    \/ \E t \in Tasks, op \in Ops, name \in FlakyNames : Start(t, op, name)
    \/ \E t \in Tasks : PokeCacheGet(t)
    \/ \E t \in Tasks : PokeHttpFlaky(t)
    \/ \E t \in Tasks : PokeCacheSet(t)
    \/ \E t \in Tasks : TransCacheGet(t)
    \/ \E t \in Tasks : TransHttpFlaky(t)
    \/ \E t \in Tasks : TransCacheSet(t)
    \/ \E t \in Tasks : Return(t)

SpecFlaky == Init /\ [][NextFlaky]_vars

----------------------------------------------------------------------------
(* Properties *)

(* The fetch of task t is over: fetchEntity returned or raised. *)
FetchDone(t) == pc[t] \in {"trans_get", "trans_http", "trans_set", "done"}

(* The transform of task t is over: transform returned or raised. *)
TransDone(t) == pc[t] = "done" /\ call[t].op = "translated" /\ call[t].rec.some

FailStatus(resp) == resp.kind = "status" /\ ~IsSuccess(resp.code)

(* PokeAPI answered with a success status and a document the adapter parses. *)
FetchedOk(resp) ==
    resp.kind = "status" /\ IsSuccess(resp.code) /\ SpeciesParseError(resp.body) = ""

(* The body carries the nested result field contents.translated. *)
HasNestedResult(body) ==
    /\ body.t = "obj"
    /\ "contents" \in DOMAIN body.v
    /\ body.v.contents.t = "obj"
    /\ "translated" \in DOMAIN body.v.contents.v

HasMarker(detail) == \E i \in DOMAIN detail : detail[i] = RATE_LIMIT_MARKER

(* Key k is written by the step: new, or its value or time to live renewed. *)
Written(k) ==
    /\ k \in DOMAIN store'
    /\ \/ k \notin DOMAIN store
       \/ store'[k].val # store[k].val
       \/ store'[k].ttl > store[k].ttl

(* Task t ends with an error in this step. *)
EndsInError(t) == pc[t] # "done" /\ pc'[t] = "done" /\ outcome'[t].kind # "ok"

(* C1: every document held in the entity cache is one that the adapter   *)
(* parses into an EntityRecord.                                          *)
C1_CachedOnlyIfParsed ==
    \A k \in DOMAIN store :
        IsPokeKey(k) => SpeciesParseError(Loads(store[k].val)) = ""

(* C2: after a fetch for an identifier ended with ServiceUnavailable, the *)
(* next fetch for it issues one new upstream request for the same lookup  *)
(* key and, when that request succeeds, returns the record.               *)
C2_RetryAfterUnavailable ==
    \A t \in Tasks :
        (FetchDone(t) /\ obs[t].prev = "unavailable") =>
            /\ obs[t].preqs = 1
            /\ obs[t].url = PokeUrl(Fold(call[t].name))
            /\ FetchedOk(obs[t].resp) =>
                  /\ call[t].rec = Some(ExtractSpecies(obs[t].resp.body))
                  /\ call[t].op = "basic" => outcome[t].kind = "ok"

C2_Witness ==
    \E t \in Tasks :
        /\ pc[t] = "done" /\ call[t].op = "basic"
        /\ obs[t].prev = "unavailable"
        /\ FetchedOk(obs[t].resp)
        /\ outcome[t].kind = "ok"

(* C3: once a fetch for an identifier has succeeded and its entry has not *)
(* expired, every later fetch for it returns the stored record without an *)
(* upstream request; a fetch for an identifier with no cache entry issues *)
(* one request, to its own lookup key only.                               *)
C3_HitServesStoredRecord ==
    \A t \in Tasks :
        FetchDone(t) =>
            /\ obs[t].expect.some =>
                  /\ obs[t].preqs = 0
                  /\ call[t].rec = Some(obs[t].expect.v.rec)
            /\ ~obs[t].had =>
                  /\ obs[t].preqs = 1
                  /\ obs[t].url = PokeUrl(Fold(call[t].name))

C3_Witness ==
    \E t \in Tasks :
        /\ pc[t] = "done" /\ call[t].op = "basic"
        /\ obs[t].expect.some
        /\ obs[t].preqs = 0
        /\ outcome[t] = Returned(PublicRecord(obs[t].expect.v.rec, obs[t].expect.v.rec.description))

(* C4: identifiers that differ only in letter case use one cache key and  *)
(* one upstream lookup key; after a success with one casing, a fetch with *)
(* another casing hits that entry, issues no request and returns the same *)
(* record.                                                                *)
C4_SameKeys ==
    \A a \in Names, b \in Names :
        SameName(a, b) =>
            /\ PokeKey(NormalizeName(a)) = PokeKey(NormalizeName(b))
            /\ PokeUrl(NormalizeName(a)) = PokeUrl(NormalizeName(b))

C4_CaseInsensitive ==
    /\ C4_SameKeys
    /\ \A t \in Tasks :
          (FetchDone(t) /\ obs[t].expect.some /\ obs[t].expect.v.name # call[t].name) =>
              /\ obs[t].preqs = 0
              /\ call[t].rec = Some(obs[t].expect.v.rec)

C4_Witness ==
    \E t \in Tasks :
        /\ pc[t] = "done" /\ call[t].op = "basic"
        /\ obs[t].expect.some
        /\ obs[t].expect.v.name # call[t].name
        /\ obs[t].preqs = 0
        /\ outcome[t].kind = "ok"

(* C5: after transform(text, style) has succeeded and its entry has not   *)
(* expired, every later transform(text, style) returns the same string    *)
(* without an upstream request.                                           *)
C5_RepeatTransformHitsCache ==
    \A t \in Tasks :
        (TransDone(t) /\ obs[t].texpect.some) =>
            /\ obs[t].treqs = 0
            /\ outcome[t].kind = "ok"
            /\ outcome[t].value.v.description = obs[t].texpect.v

(* C6: a key of the transform cache is written only by a transform whose  *)
(* upstream call returned a success status with a well-formed nested      *)
(* result, and with that result; a transform ending in an error writes    *)
(* nothing, so the next transform for the key calls upstream again.       *)
C6_State ==
    \A t \in Tasks :
        (TransDone(t) /\ obs[t].tprev = "unavailable") => obs[t].treqs = 1

C6_Step ==
    /\ \A k \in DOMAIN store' :
          (IsTransKey(k) /\ Written(k)) =>
              \E t \in Tasks :
                  /\ pc[t] = "trans_set"
                  /\ k = TransKey(hashOf, call[t].text, call[t].style)
                  /\ obs[t].tresp.kind = "status" /\ IsSuccess(obs[t].tresp.code)
                  /\ HasNestedResult(obs[t].tresp.body)
                  /\ store'[k].val = obs[t].tresp.body.v.contents.v.translated
    /\ \A t \in Tasks :
          (pc[t] \in {"trans_get", "trans_http", "trans_set"} /\ EndsInError(t)) =>
              store' = store

C6_NoFailedTransformCached == [](C6_State) /\ [][C6_Step]_vars

C6_Witness ==
    \E t \in Tasks :
        /\ TransDone(t)
        /\ obs[t].tprev = "unavailable"
        /\ obs[t].treqs = 1
        /\ outcome[t].kind = "ok"

(* C7: on a cache miss, an upstream 404 yields NotFound, and every other  *)
(* failure status and every transport failure yields ServiceUnavailable   *)
(* with status 503.                                                       *)
C7_FetchFailureClassified ==
    \A t \in Tasks :
        (pc[t] = "done" /\ obs[t].preqs = 1) =>
            /\ (FailStatus(obs[t].resp) /\ obs[t].resp.code = 404) =>
                  (outcome[t].kind = "notfound" /\ outcome[t].status = 404)
            /\ (FailStatus(obs[t].resp) /\ obs[t].resp.code # 404) =>
                  (outcome[t].kind = "unavailable" /\ outcome[t].status = 503)
            /\ obs[t].resp.kind = "transport" =>
                  (outcome[t].kind = "unavailable" /\ outcome[t].status = 503)

C7_Witness ==
    \E t \in Tasks :
        /\ pc[t] = "done"
        /\ FailStatus(obs[t].resp) /\ obs[t].resp.code = 404
        /\ outcome[t].kind = "notfound"

(* C8: a fetch that ends with NotFound leaves the store unchanged; after  *)
(* it the cache has no entry for the identifier and the next fetch for it *)
(* issues a new upstream request.                                         *)
C8_State ==
    \A t \in Tasks :
        /\ (pc[t] = "done" /\ outcome[t].kind = "notfound") =>
              PokeKey(Fold(call[t].name)) \notin DOMAIN store
        /\ (FetchDone(t) /\ obs[t].prev = "notfound") => obs[t].preqs = 1

C8_Step ==
    \A t \in Tasks :
        (pc[t] # "done" /\ pc'[t] = "done" /\ outcome'[t].kind = "notfound") =>
            store' = store

C8_NotFoundNotCached == [](C8_State) /\ [][C8_Step]_vars

C8_Witness ==
    \E t \in Tasks :
        /\ FetchDone(t)
        /\ obs[t].prev = "notfound"
        /\ obs[t].preqs = 1
        /\ FetchedOk(obs[t].resp)

(* C9: a 429 from the translation API ends the request with a 503         *)
(* ServiceUnavailable whose message carries the rate-limit marker, and    *)
(* writes nothing to the cache; another failure status never carries the  *)
(* marker.                                                                *)
C9_State ==
    \A t \in Tasks :
        (TransDone(t) /\ FailStatus(obs[t].tresp)) =>
            IF obs[t].tresp.code = 429
            THEN /\ outcome[t].kind = "unavailable"
                 /\ outcome[t].status = 503
                 /\ ~outcome[t].value.some
                 /\ HasMarker(outcome[t].detail)
            ELSE ~HasMarker(outcome[t].detail)

C9_Step ==
    \A t \in Tasks :
        (pc[t] = "trans_http" /\ pc'[t] = "done" /\ obs'[t].tresp.code = 429) =>
            store' = store

C9_RateLimitMarked == [](C9_State) /\ [][C9_Step]_vars

C9_Witness ==
    \E t \in Tasks :
        /\ TransDone(t)
        /\ obs[t].tresp.kind = "status" /\ obs[t].tresp.code = 429
        /\ HasMarker(outcome[t].detail)

(* C10: every other failing outcome of the translation call (another      *)
(* failure status, a transport failure, a success status whose body lacks *)
(* the nested result field) ends transform with a 503 ServiceUnavailable, *)
(* never with a string or another kind of error.                          *)
OtherTransFailure(resp) ==
    \/ FailStatus(resp) /\ resp.code # 429
    \/ resp.kind = "transport"
    \/ resp.kind = "status" /\ IsSuccess(resp.code) /\ ~HasNestedResult(resp.body)

C10_OtherFailuresUnavailable ==
    \A t \in Tasks :
        (call[t].op = "translated" /\ call[t].rec.some /\ OtherTransFailure(obs[t].tresp)) =>
            /\ pc[t] = "done"
            /\ outcome[t].kind = "unavailable"
            /\ outcome[t].status = 503
            /\ ~outcome[t].value.some

C10_Witness ==
    \E t \in Tasks :
        /\ TransDone(t)
        /\ obs[t].tresp.kind = "status" /\ IsSuccess(obs[t].tresp.code)
        /\ ~HasNestedResult(obs[t].tresp.body)
        /\ outcome[t].kind = "unavailable"

(* C11: the style chosen for a record is yoda when it is legendary,      *)
(* whatever its habitat, yoda when it is not legendary and its habitat is *)
(* "cave", and shakespeare for every other record, an absent habitat      *)
(* included; every record gets one of the two styles.                     *)
StyleFor(legendary, habitat) ==
    IF legendary THEN "yoda"
    ELSE IF habitat = Some("cave") THEN "yoda"
    ELSE "shakespeare"

C11_StyleRule ==
    \A t \in Tasks :
        (call[t].op = "translated" /\ call[t].rec.some) =>
            /\ call[t].style \in Styles
            /\ call[t].style = StyleFor(call[t].rec.v.is_legendary, call[t].rec.v.habitat)

C11_Witness ==
    \E t \in Tasks :
        /\ call[t].op = "translated" /\ call[t].rec.some
        /\ ~call[t].rec.v.is_legendary
        /\ call[t].rec.v.habitat = None
        /\ call[t].style = "shakespeare"

(* C12: a successful getTranslatedInfo calls the transform adapter with   *)
(* the record's descriptive text and the style the rule selects for the   *)
(* record, and returns the record's identifier, habitat and legendary     *)
(* flag together with the transform's output as descriptive text.         *)
C12_TranslatedComposition ==
    \A t \in Tasks :
        (TransDone(t) /\ outcome[t].kind = "ok") =>
            LET rec == call[t].rec.v
                style == StyleFor(rec.is_legendary, rec.habitat)
                key == TransKey(hashOf, rec.description, style)
            IN  /\ call[t].text = rec.description
                /\ call[t].style = style
                /\ IF obs[t].treqs = 0
                   THEN key \in DOMAIN store => call[t].result = store[key].val
                   ELSE /\ obs[t].treqs = 1
                        /\ obs[t].treq = [url |-> <<"/", style>>, text |-> rec.description]
                        /\ call[t].result = obs[t].tresp.body.v.contents.v.translated
                /\ outcome[t].value =
                      Some([ name |-> rec.name,
                             description |-> call[t].result,
                             habitat |-> rec.habitat,
                             is_legendary |-> rec.is_legendary ])

C12_Witness ==
    \E t \in Tasks :
        /\ TransDone(t) /\ outcome[t].kind = "ok"
        /\ obs[t].treqs = 1
        /\ call[t].rec.v.is_legendary
        /\ outcome[t].value.v.description = <<"yoda", ":">> \o call[t].rec.v.description
        /\ outcome[t].value.v.habitat = Some("rare")

(* C13: in getTranslatedInfo the first adapter error is the request's     *)
(* outcome.  When the fetch fails, the transform adapter is not invoked:   *)
(* no cache lookup, no upstream request, no write to the transform cache.  *)
(* When the transform fails, the caller gets the adapter's error and no    *)
(* record.                                                                 *)
TransEntries(st) == [k \in {x \in DOMAIN st : IsTransKey(x)} |-> st[k]]

TransformFailed(t) ==
    /\ TransDone(t)
    /\ obs[t].treqs = 1
    /\ ~(obs[t].tresp.kind = "status" /\ IsSuccess(obs[t].tresp.code)
          /\ HasNestedResult(obs[t].tresp.body))

C13_State ==
    \A t \in Tasks :
        (pc[t] = "done" /\ call[t].op = "translated") =>
            /\ ~call[t].rec.some =>
                  /\ outcome[t].kind \in {"notfound", "unavailable", "error"}
                  /\ ~outcome[t].value.some
                  /\ obs[t].treqs = 0
                  /\ obs[t].tresp = NoResponse
                  /\ obs[t].treq.url = << >>
                  /\ obs[t].tprev = "none"
            /\ TransformFailed(t) =>
                  /\ outcome[t] = TransFailure(obs[t].tresp)
                  /\ ~outcome[t].value.some

C13_Step ==
    \A t \in Tasks :
        (pc[t] \in {"poke_get", "poke_http", "poke_set"} /\ pc'[t] = "done") =>
            TransEntries(store') = TransEntries(store)

C13_FirstErrorPropagates == [](C13_State) /\ [][C13_Step]_vars

C13_Witness ==
    \E t \in Tasks :
        /\ TransformFailed(t)
        /\ obs[t].tresp.kind = "transport"
        /\ outcome[t].kind = "unavailable"
        /\ TransEntries(store) # << >>

(* C14: every completed request ends with a PublicRecord, NotFound or     *)
(* ServiceUnavailable, whatever the upstream services answered.           *)
C14_OutcomeTaxonomy ==
    \A t \in Tasks :
        pc[t] = "done" => outcome[t].kind \in {"ok", "notfound", "unavailable"}

(* C15: a document whose habitat is missing or null yields a record with  *)
(* an absent habitat and no error, whether the document came from PokeAPI *)
(* or from the cache.                                                     *)
HabitatUnknown(data) ==
    /\ IsObj(data)
    /\ "name" \in DOMAIN data.v
    /\ "is_legendary" \in DOMAIN data.v
    /\ "habitat" \in DOMAIN data.v => data.v.habitat = JNull

C15_UnknownHabitatIsAbsent ==
    \A t \in Tasks :
        (FetchDone(t) /\ HabitatUnknown(call[t].data)) =>
            /\ call[t].rec.some
            /\ call[t].rec.v.habitat = None
            /\ outcome[t].kind # "error"

(* C16: the description extracted from a list of text entries is the text *)
(* of the first English entry with every newline and form feed replaced   *)
(* by one space, and the placeholder when the list has no English entry.  *)
EntriesIn(data) ==
    IF "flavor_text_entries" \in DOMAIN data.v THEN data.v.flavor_text_entries ELSE << >>

EnglishAt(entries) == {i \in DOMAIN entries : entries[i].language.name = "en"}

IsCleaned(desc, text) ==
    /\ Len(desc) = Len(text)
    /\ \A j \in DOMAIN text :
          desc[j] = IF text[j] \in {"\n", "\f"} THEN " " ELSE text[j]

C16_FirstEnglishDescription ==
    \A t \in Tasks :
        call[t].rec.some =>
            LET entries == EntriesIn(call[t].data)
                desc == call[t].rec.v.description
            IN  IF EnglishAt(entries) = {}
                THEN desc = <<"Description unavailable.">>
                ELSE LET first == CHOOSE i \in EnglishAt(entries) :
                                      \A j \in EnglishAt(entries) : i <= j
                     IN  IsCleaned(desc, entries[first].flavor_text)

C16_Witness ==
    \E t \in Tasks :
        /\ call[t].rec.some
        /\ EntriesIn(call[t].data) =
              <<Entry("fr", FrText), Entry("en", EnTextRaw), Entry("en", EnText)>>
        /\ call[t].rec.v.description = <<"Lives", " ", "in", " ", "caves">>

(* C17: a successful getBasicInfo served from the cache entry returns the *)
(* same PublicRecord, field by field, as the previous successful          *)
(* getBasicInfo for the identifier returned.                              *)
C17_BasicInfoIdempotent ==
    \A t \in Tasks :
        (/\ pc[t] = "done" /\ call[t].op = "basic" /\ outcome[t].kind = "ok"
         /\ obs[t].expect.some /\ obs[t].expect.v.pub.some) =>
            LET first == obs[t].expect.v.pub.v
                second == outcome[t].value.v
            IN  /\ second.name = first.name
                /\ second.description = first.description
                /\ second.habitat = first.habitat
                /\ second.is_legendary = first.is_legendary

C17_Witness ==
    \E t \in Tasks :
        /\ pc[t] = "done" /\ call[t].op = "basic" /\ outcome[t].kind = "ok"
        /\ obs[t].expect.some /\ obs[t].expect.v.pub.some
        /\ obs[t].preqs = 0
        /\ outcome[t].value.v.habitat = Some("cave")
        /\ outcome[t].value = obs[t].expect.v.pub

(* C18: when concurrent tasks ask for the same uncached key, each task    *)
(* that misses issues its own upstream request and writes the cache; all  *)
(* writes store the same value, so the cache entry and each task's result *)
(* depend on the request alone, not on the order of the reads, fetches    *)
(* and writes.                                                            *)
RaceRecord(name) == ExtractSpecies(StableDocument(Fold(name)))

RaceResult(op, name) ==
    LET rec == RaceRecord(name)
    IN  [ name |-> rec.name,
          description |-> IF op = "basic" THEN rec.description
                          ELSE Rendered(rec.description,
                                        StyleFor(rec.is_legendary, rec.habitat)),
          habitat |-> rec.habitat,
          is_legendary |-> rec.is_legendary ]

C18_SameValueWritten ==
    /\ \A k \in DOMAIN store :
          IsPokeKey(k) =>
              \E n \in Species : k = PokeKey(n) /\ store[k].val = Dumps(StableDocument(n))
    /\ \A k \in DOMAIN store :
          IsTransKey(k) =>
              \E n \in Species :
                  LET rec == RaceRecord(n)
                      style == StyleFor(rec.is_legendary, rec.habitat)
                  IN  /\ k = TransKey(hashOf, rec.description, style)
                      /\ store[k].val = Rendered(rec.description, style)

C18_RaceIndependent ==
    /\ C18_SameValueWritten
    /\ \A t \in Tasks :
          /\ (FetchDone(t) /\ ~obs[t].had) =>
                 /\ obs[t].preqs = 1
                 /\ PokeKey(Fold(call[t].name)) \in DOMAIN store
          /\ (TransDone(t) /\ obs[t].treqs = 1) =>
                 TransKey(hashOf, call[t].text, call[t].style) \in DOMAIN store
          /\ pc[t] = "done" =>
                 outcome[t] = Returned(RaceResult(call[t].op, call[t].name))

C18_Witness ==
    \E t \in Tasks, u \in Tasks :
        /\ t # u
        /\ pc[t] = "done" /\ pc[u] = "done"
        /\ call[t].op = "translated" /\ call[u].op = "translated"
        /\ Fold(call[t].name) = Fold(call[u].name)
        /\ obs[t].preqs = 1 /\ obs[u].preqs = 1
        /\ obs[t].treqs = 1 /\ obs[u].treqs = 1
        /\ outcome[t] = outcome[u]
        /\ outcome[t].kind = "ok"

(* C19: getBasicInfo returns the record's identifier, descriptive text,   *)
(* habitat and legendary flag as they are, and never invokes the          *)
(* transform adapter: it issues no transform request and leaves the       *)
(* transform cache as it was.                                             *)
C19_State ==
    \A t \in Tasks :
        call[t].op = "basic" =>
            /\ pc[t] \notin {"trans_get", "trans_http", "trans_set"}
            /\ obs[t].treqs = 0
            /\ obs[t].tresp = NoResponse
            /\ obs[t].treq.url = << >>
            /\ (pc[t] = "done" /\ outcome[t].kind = "ok") =>
                  /\ call[t].rec.some
                  /\ outcome[t].value.v.name = call[t].rec.v.name
                  /\ outcome[t].value.v.description = call[t].rec.v.description
                  /\ outcome[t].value.v.habitat = call[t].rec.v.habitat
                  /\ outcome[t].value.v.is_legendary = call[t].rec.v.is_legendary

C19_Step ==
    \A t \in Tasks :
        (call[t].op = "basic" /\ pc'[t] # pc[t]) =>
            TransEntries(store') = TransEntries(store)

C19_BasicInfoVerbatim == [](C19_State) /\ [][C19_Step]_vars

C19_Witness ==
    \E t \in Tasks :
        /\ pc[t] = "done" /\ call[t].op = "basic" /\ outcome[t].kind = "ok"
        /\ outcome[t].value.v.description = <<"Lives", " ", "in", " ", "caves">>
        /\ outcome[t].value.v.habitat = Some("cave")
        /\ TransEntries(store) # << >>

(* C20: a transform call computes, for a text and style, the same cache   *)
(* key as the earlier successful transform call for that text and style,  *)
(* whichever process sharing the store makes the call.                    *)
C20_StableTransformKey ==
    \A t \in Tasks :
        (/\ call[t].op = "translated" /\ call[t].rec.some
         /\ <<call[t].text, call[t].style>> \in DOMAIN goodTrans) =>
            TransKey(hashOf, call[t].text, call[t].style)
                = goodTrans[<<call[t].text, call[t].style>>].key

(* C21: an adapter call issues one upstream request on a cache miss and   *)
(* none on a hit, and never repeats a request after a failure; a          *)
(* getBasicInfo issues at most one request, a getTranslatedInfo at most   *)
(* one data request and, after it, at most one transform request.         *)
EntityHit(t) == obs[t].had

TransformHit(t) == obs[t].thad.some /\ obs[t].thad.v # << >>

C21_State ==
    \A t \in Tasks :
        /\ obs[t].preqs \in {0, 1}
        /\ obs[t].treqs \in {0, 1}
        /\ FetchDone(t) => obs[t].preqs = IF EntityHit(t) THEN 0 ELSE 1
        /\ TransDone(t) => obs[t].treqs = IF TransformHit(t) THEN 0 ELSE 1
        /\ call[t].op = "basic" => obs[t].treqs = 0
        /\ ~FetchDone(t) => obs[t].treqs = 0

C21_Step ==
    \A t \in Tasks :
        /\ obs'[t].preqs > obs[t].preqs => (pc[t] = "poke_http" /\ pc'[t] # "poke_http")
        /\ obs'[t].treqs > obs[t].treqs =>
              (pc[t] = "trans_http" /\ pc'[t] # "trans_http" /\ obs[t].preqs <= 1)

FullTtl(k) == IF IsPokeKey(k) THEN 3600 ELSE 604800

C22_State ==
    /\ \A k \in DOMAIN store : store[k].ttl >= 1 /\ store[k].ttl <= FullTtl(k)
    /\ \A t \in Tasks :
          /\ (FetchDone(t) /\ obs[t].prev = "ok" /\ ~obs[t].had) => obs[t].preqs = 1
          /\ (TransDone(t) /\ obs[t].tprev = "ok" /\ ~obs[t].thad.some) => obs[t].treqs = 1

C22_Step ==
    /\ \A t \in Tasks :
          (pc[t] \in {"poke_get", "trans_get"} /\ pc'[t] # pc[t]) => store' = store
    /\ \A t \in Tasks :
          (pc[t] = "poke_set" /\ pc'[t] # pc[t]) =>
              LET k == PokeKey(Fold(call[t].name))
              IN  k \in DOMAIN store' /\ store'[k].ttl = 3600
    /\ \A t \in Tasks :
          (pc[t] = "trans_set" /\ pc'[t] # pc[t]) =>
              LET k == TransKey(hashOf, call[t].text, call[t].style)
              IN  k \in DOMAIN store' /\ store'[k].ttl = 604800
    /\ \A k \in DOMAIN store' :
          (k \notin DOMAIN store \/ store'[k].ttl > store[k].ttl) =>
              /\ store'[k].ttl = FullTtl(k)
              /\ \E t \in Tasks : pc[t] \in {"poke_set", "trans_set"} /\ pc'[t] # pc[t]
    /\ nAdv' # nAdv =>
          \A k \in DOMAIN store : k \in DOMAIN store' => store'[k].ttl < store[k].ttl

C22_FixedTimeToLive == [](C22_State) /\ [][C22_Step]_vars

C22_Witness ==
    \E t \in Tasks :
        /\ pc[t] = "done" /\ outcome[t].kind = "ok" /\ call[t].op = "basic"
        /\ obs[t].prev = "ok" /\ ~obs[t].had
        /\ obs[t].preqs = 1
        /\ PokeKey(Fold(call[t].name)) \in DOMAIN store
        /\ store[PokeKey(Fold(call[t].name))].ttl = 3600

(* C23: every started request eventually completes, with a result or an  *)
(* error.                                                                 *)
C23_EveryTaskCompletes ==
    \A t \in Tasks : (pc[t] \notin {"idle", "done"}) ~> (pc[t] = "done")

(* C24: a task abandoned or failed at a suspension point leaves nothing   *)
(* partially committed: every key holds its previous content or one       *)
(* complete value, written in one step after the upstream call that       *)
(* produced it had completed.                                             *)
CompleteDocuments ==
    UNION { { Dumps(d) : d \in SpeciesBodies(n) \ {JInvalid} } : n \in Species }

CompleteTranslations ==
    { Rendered(text, style) : text \in Descriptions, style \in Styles } \cup { << >> }

Completed(resp) == resp.kind = "status" /\ resp.code >= 200 /\ resp.code < 300

C24_State ==
    \A k \in DOMAIN store :
        IF IsPokeKey(k) THEN store[k].val \in CompleteDocuments
        ELSE store[k].val \in CompleteTranslations

C24_Step ==
    /\ \A k \in DOMAIN store' :
          (k \notin DOMAIN store \/ store'[k] # store[k]) =>
              \/ nAdv' # nAdv /\ k \in DOMAIN store /\ store'[k].val = store[k].val
              \/ \E t \in Tasks :
                    /\ pc[t] = "poke_set" /\ pc'[t] # pc[t]
                    /\ Completed(obs[t].resp)
                    /\ k = PokeKey(Fold(call[t].name))
                    /\ store'[k].val = <<"json", obs[t].resp.body>>
              \/ \E t \in Tasks :
                    /\ pc[t] = "trans_set" /\ pc'[t] # pc[t]
                    /\ Completed(obs[t].tresp)
                    /\ k = TransKey(hashOf, call[t].text, call[t].style)
                    /\ store'[k].val = obs[t].tresp.body.v.contents.v.translated
    /\ \A k \in DOMAIN store : k \notin DOMAIN store' => nAdv' # nAdv
    /\ \A t \in Tasks :
          (/\ pc[t] \in {"poke_get", "poke_http", "trans_get", "trans_http"}
           /\ pc'[t] \in {"idle", "done"}
           /\ outcome'[t].kind # "ok") => store' = store

C24_NothingPartiallyCommitted == [](C24_State) /\ [][C24_Step]_vars

C24_Witness ==
    /\ \A t \in Tasks : pc[t] = "idle"
    /\ nCalls = 1
    /\ lastFetch = << >>
    /\ \E k \in DOMAIN store : IsPokeKey(k) /\ store[k].val \in CompleteDocuments

(* C25: transform(text, style) returns only what the translation API      *)
(* produced for that text and that style.                                 *)
ProducedFor(text, style) == { <<style, ":">> \o text, << >> }

C25_NoForeignTranslation ==
    \A t \in Tasks :
        (TransDone(t) /\ outcome[t].kind = "ok") =>
            outcome[t].value.v.description \in ProducedFor(call[t].text, call[t].style)

(* C26: among concurrent tasks on one key, a task whose upstream call     *)
(* fails neither writes, overwrites nor deletes the entry: once written,  *)
(* the entry stays with the successful value while no time passes, in     *)
(* every order of finishing.                                              *)
C26_Step ==
    /\ \A k \in DOMAIN store :
          /\ k \in DOMAIN store'
          /\ store'[k].val = store[k].val
          /\ store'[k].ttl >= store[k].ttl
    /\ \A t \in Tasks : EndsInError(t) => store' = store

C26_FailureLeavesEntry == [](C18_SameValueWritten) /\ [][C26_Step]_vars

C26_Witness ==
    \E t \in Tasks, u \in Tasks :
        /\ pc[t] = "done" /\ outcome[t].kind = "unavailable" /\ obs[t].preqs = 1
        /\ ~call[t].rec.some
        /\ pc[u] = "done" /\ outcome[u].kind = "ok" /\ obs[u].preqs = 1
        /\ Fold(call[t].name) = Fold(call[u].name)
        /\ lastFetch[Fold(call[t].name)] = "unavailable"
        /\ PokeKey(Fold(call[t].name)) \in DOMAIN store
        /\ store[PokeKey(Fold(call[t].name))].val = Dumps(StableDocument(Fold(call[t].name)))

(* C27: when get_translated_info fetched the species and then fails in    *)
(* translate, the failing step leaves the store as it is: the species     *)
(* entry stays and no translation entry appears.  A retry before the      *)
(* species entry expires sends no request to PokeAPI and one request to   *)
(* the translation API.                                                   *)
Retry(t) ==
    /\ call[t].op = "translated"
    /\ FetchDone(t)
    /\ obs[t].expect.some
    /\ obs[t].tprev = "unavailable"

C27_State ==
    \A t \in Tasks :
        Retry(t) =>
            /\ obs[t].preqs = 0
            /\ pc[t] \in {"trans_set", "done"} => obs[t].treqs = 1

C27_Step ==
    \A t \in Tasks :
        (pc[t] = "trans_http" /\ EndsInError(t)) =>
            /\ store' = store
            /\ obs[t].preqs = 1 /\ Fold(call[t].name) \in DOMAIN goodFetch =>
                  /\ PokeKey(Fold(call[t].name)) \in DOMAIN store'
                  /\ store'[PokeKey(Fold(call[t].name))].val = Dumps(call[t].data)

C27_EntityKeptAfterTransformFailure == [](C27_State) /\ [][C27_Step]_vars

C27_Witness ==
    \E t \in Tasks :
        /\ Retry(t) /\ pc[t] = "done"
        /\ obs[t].prev = "ok"
        /\ obs[t].preqs = 0 /\ obs[t].treqs = 1
        /\ outcome[t].kind = "ok"

(* C28: in one shared store no species key equals a translation key, for  *)
(* any identifier, text and style, and each adapter's clear_cache removes *)
(* only keys of its own namespace and leaves every entry of the other     *)
(* adapter as it was.                                                     *)
OddNames ==
    Names \cup { <<"translation", ":", "yoda", ":", "h1">>, <<"translation", ":">>, << >>,
                 <<"*">> }

C28_DisjointKeys ==
    \A n \in OddNames, text \in Descriptions, style \in Styles, h \in HashFns :
        /\ PokeKey(NormalizeName(n)) # TransKey(h, text, style)
        /\ {PokeKey(NormalizeName(n))}
              = RedisKeys(PokeKey(NormalizeName(n)) :> 0 @@ TransKey(h, text, style) :> 0,
                          <<"pokemon", ":", "species", ":">>)
        /\ {TransKey(h, text, style)}
              = RedisKeys(PokeKey(NormalizeName(n)) :> 0 @@ TransKey(h, text, style) :> 0,
                          <<"translation", ":">>)

C28_State ==
    /\ C28_DisjointKeys
    /\ \A k \in DOMAIN store : IsPokeKey(k) # IsTransKey(k)

Removed == DOMAIN store \ DOMAIN store'
Kept(k) == k \in DOMAIN store' /\ store'[k] = store[k]

C28_Step ==
    Removed # {} =>
        \/ /\ \A k \in Removed : IsPokeKey(k)
           /\ \A k \in DOMAIN store : IsTransKey(k) => Kept(k)
           /\ \A k \in DOMAIN store' : ~IsPokeKey(k)
        \/ /\ \A k \in Removed : IsTransKey(k)
           /\ \A k \in DOMAIN store : IsPokeKey(k) => Kept(k)
           /\ \A k \in DOMAIN store' : ~IsTransKey(k)

C28_ClearOwnNamespace == [](C28_State) /\ [][C28_Step]_vars

(* The species entries were cleared, the translation entry is still there. *)
C28_Witness ==
    /\ \E who \in DOMAIN lastFetch : lastFetch[who] = "ok"
    /\ \A k \in DOMAIN store : IsTransKey(k)
    /\ store # << >>

(* C29: every service-unavailable error says which upstream failed.  An   *)
(* error of the PokeAPI adapter names PokeAPI and not the translation     *)
(* API, an error of the translation adapter names the translation API and *)
(* not PokeAPI, and the request ends with the adapter's message as it is. *)
Mentions(detail, word) == \E i \in DOMAIN detail : detail[i] = word

C29_UpstreamNamed ==
    \A t \in Tasks :
        (pc[t] = "done" /\ outcome[t].kind = "unavailable") =>
            IF ~call[t].rec.some
            THEN /\ outcome[t] = PokeFailure(obs[t].resp, call[t].name)
                 /\ Mentions(outcome[t].detail, "PokeAPI")
                 /\ ~Mentions(outcome[t].detail, "Translation API")
            ELSE /\ outcome[t] = TransFailure(obs[t].tresp)
                 /\ Mentions(outcome[t].detail, "Translation API")
                 /\ ~Mentions(outcome[t].detail, "PokeAPI")

(* A transform failure reported after an earlier PokeAPI failure. *)
C29_Witness ==
    \E t \in Tasks :
        /\ pc[t] = "done" /\ outcome[t].kind = "unavailable"
        /\ call[t].rec.some
        /\ Mentions(outcome[t].detail, "Translation API")
        /\ \E who \in DOMAIN lastFetch : lastFetch[who] = "unavailable"

(* C30: the name of every record returned for a request is the            *)
(* lower-cased form of the requested name, whatever its casing and        *)
(* whatever document PokeAPI answered with.                               *)
C30_NameIsLoweredRequest ==
    \A t \in Tasks :
        /\ call[t].rec.some => call[t].rec.v.name = Lower(call[t].name)
        /\ (pc[t] = "done" /\ outcome[t].kind = "ok") =>
              outcome[t].value.v.name = Lower(call[t].name)

(* C31: the time to live of translation entries is at least ten times    *)
(* that of species entries; both are positive constants, and every write  *)
(* sets exactly the constant of its cache.                                *)
WriteTtl(k) == IF IsPokeKey(k) THEN POKE_CACHE_TTL ELSE TRANSLATION_CACHE_TTL

WrittenNow(k) == nAdv' = nAdv /\ (k \notin DOMAIN store \/ store'[k] # store[k])

C31_State ==
    /\ POKE_CACHE_TTL > 0
    /\ TRANSLATION_CACHE_TTL > 0
    /\ TRANSLATION_CACHE_TTL >= 10 * POKE_CACHE_TTL
    /\ \A k \in DOMAIN store : store[k].ttl > 0 /\ store[k].ttl <= WriteTtl(k)

C31_Step ==
    /\ \A k \in DOMAIN store' :
          WrittenNow(k) =>
              /\ store'[k].ttl = WriteTtl(k)
              /\ IsTransKey(k) => store'[k].ttl >= 10 * POKE_CACHE_TTL
              /\ IsPokeKey(k) => 10 * store'[k].ttl <= TRANSLATION_CACHE_TTL
    /\ \A t \in Tasks :
          (pc[t] \in {"poke_set", "trans_set"} /\ pc'[t] # pc[t]) =>
              \E k \in DOMAIN store' :
                  /\ store'[k].ttl = WriteTtl(k)
                  /\ k = IF pc[t] = "poke_set"
                         THEN PokeKey(NormalizeName(call[t].name))
                         ELSE TransKey(hashOf, call[t].text, call[t].style)

C31_TtlOrderOfMagnitude == [](C31_State) /\ [][C31_Step]_vars

(* A species entry and a translation entry, both just written. *)
C31_Witness ==
    \E k \in DOMAIN store, j \in DOMAIN store :
        /\ IsPokeKey(k) /\ store[k].ttl = POKE_CACHE_TTL
        /\ IsTransKey(j) /\ store[j].ttl = TRANSLATION_CACHE_TTL
        /\ store[j].ttl >= 10 * store[k].ttl
        /\ nAdv = 0

====
